---- MODULE Spec2Model ----
(***************************************************************************)
(* A model of app/load_data.py: a script that builds a Binance client at   *)
(* module load, asks it for the BTCUSDT ticker, converts the "price" field *)
(* with float() and prints it.                                             *)
(*                                                                         *)
(* Text is modelled as a sequence of one-character strings, so that        *)
(* float() and the f-string formatting are computed character by           *)
(* character.  A float is modelled by the decimal number it denotes:       *)
(* for literals of at most 15 significant digits the IEEE double nearest   *)
(* to the literal prints back (repr) as the shortest decimal, which is the *)
(* literal without its redundant zeros, so the model is exact on the       *)
(* strings it enumerates.                                                  *)
(***************************************************************************)
EXTENDS Integers, Sequences, FiniteSets, TLC

VARIABLES
    pc,          \* the statement about to run
    isMain,      \* __name__ == "__main__"
    client,      \* module-level name `client`: 0 = unbound, k = the k-th Client object
    constructed, \* number of Client() constructions so far
    calls,       \* number of calls of get_btc_price so far
    requests,    \* outbound requests issued through client.get_symbol_ticker
    response,    \* what the remote call of the current fetch produced
    btc_price,   \* local `btc_price` of get_btc_price
    ret,         \* value returned by the current / last call of get_btc_price
    exc,         \* exception in flight ("" = none)
    price,       \* module-level name `price` (line 13)
    stdout,      \* lines written to standard output
    stderr,      \* lines written to standard error
    exitStatus,  \* << >> while running, <<code>> once the interpreter has exited
    log          \* what an importing caller has observed, one entry per call

vars == <<pc, isMain, client, constructed, calls, requests, response, btc_price,
          ret, exc, price, stdout, stderr, exitStatus, log>>

----------------------------------------------------------------------------
(* Bounds *)

\* longest price string enumerated character by character
MaxLen == 4
\* calls of get_btc_price an importing caller makes
MaxCalls == 3

----------------------------------------------------------------------------
(* Text *)

\* symbol="BTCUSDT" (line 9)
SYMBOL == <<"B", "T", "C", "U", "S", "D", "T">>

\* the literal text of the f-string of line 14
PREFIX == <<"C", "u", "r", "r", "e", "n", "t", " ", "B", "T", "C", "U", "S", "D", "T", " ">>

DigitChars == <<"0", "1", "2", "3", "4", "5", "6", "7", "8", "9">>

IsDigit(c) == \E i \in 1..10 : DigitChars[i] = c

DigitVal(c) == (CHOOSE i \in 1..10 : DigitChars[i] = c) - 1

\* the characters price strings are enumerated over
Alphabet == {"0", "5", ".", "-", "+", " ", "n", "a", "i", "f", "N", "/", "A"}

Strings(n) == UNION {[1..k -> Alphabet] : k \in 0..n}

\* price strings of the ticker examples: "42000.50", "65432.10", "0.00001"
DocPrices ==
    { <<"4", "2", "0", "0", "0", ".", "5", "0">>,
      <<"6", "5", "4", "3", "2", ".", "1", "0">>,
      <<"0", ".", "0", "0", "0", "0", "1">> }

PriceStrings == Strings(MaxLen) \cup DocPrices

\* a few price strings, for runs with several calls
SamplePrices ==
    { <<"0">>, <<"5", ".", "5", "0">>, <<"-", "5">>, <<"n", "a", "n">>,
      <<"N", "/", "A">> }

----------------------------------------------------------------------------
(* float(str) *)

None == [cls |-> "None"]

Float(cls, neg, num, scale) == [cls |-> cls, neg |-> neg, num |-> num, scale |-> scale]

NaN == Float("nan", FALSE, 0, 0)

Zero == Float("finite", FALSE, 0, 0)

Inf(neg) == Float("inf", neg, 0, 0)

\* str.lower() on the letters of "nan", "inf" and "infinity"
Lower(c) ==
    CASE c = "N" -> "n" [] c = "A" -> "a" [] c = "I" -> "i" [] c = "F" -> "f"
      [] c = "T" -> "t" [] c = "Y" -> "y" [] OTHER -> c

LowerStr(s) == [i \in 1..Len(s) |-> Lower(s[i])]

RECURSIVE Strip(_)
\* str.strip(): float() ignores leading and trailing whitespace
Strip(s) ==
    IF s /= << >> /\ s[1] = " " THEN Strip(Tail(s))
    ELSE IF s /= << >> /\ s[Len(s)] = " " THEN Strip(SubSeq(s, 1, Len(s) - 1))
    ELSE s

RECURSIVE DigitRun(_, _)
\* number of digit characters of s starting at position i
DigitRun(s, i) ==
    IF i <= Len(s) /\ IsDigit(s[i]) THEN 1 + DigitRun(s, i + 1) ELSE 0

RECURSIVE Accum(_, _, _, _)
\* the n digits of s from position i, appended to the decimal number acc
Accum(s, i, n, acc) ==
    IF n = 0 THEN acc ELSE Accum(s, i + 1, n - 1, acc * 10 + DigitVal(s[i]))

RECURSIVE Normalise(_, _)
\* num / 10^scale without redundant fraction zeros: 0.50 and 0.5 are one float
Normalise(num, scale) ==
    IF num = 0 THEN <<0, 0>>
    ELSE IF scale > 0 /\ num % 10 = 0 THEN Normalise(num \div 10, scale - 1)
    ELSE <<num, scale>>

ValueError == [cls |-> "ValueError"]

\* float(s) for a str s: a Float, or ValueError.  The grammar is
\* [sign] (digits [. digits] | . digits | inf | infinity | nan) between optional
\* whitespace; exponents and digit-group underscores are left out, as no
\* enumerated string holds an "e" or a "_".
ParseFloat(str) ==
    LET s    == Strip(str)
        sign == Len(s) >= 1 /\ s[1] \in {"-", "+"}
        neg  == sign /\ s[1] = "-"
        p0   == IF sign THEN 2 ELSE 1
        body == LowerStr(SubSeq(s, p0, Len(s)))
        nInt == DigitRun(s, p0)
        p1   == p0 + nInt
        dot  == p1 <= Len(s) /\ s[p1] = "."
        p2   == IF dot THEN p1 + 1 ELSE p1
        nFr  == DigitRun(s, p2)
        p3   == p2 + nFr
        mant == Accum(s, p2, nFr, Accum(s, p0, nInt, 0))
        nrm  == Normalise(mant, nFr)
    IN  IF body = <<"i", "n", "f">> \/ body = <<"i", "n", "f", "i", "n", "i", "t", "y">>
        THEN Inf(neg)
        ELSE IF body = <<"n", "a", "n">> THEN NaN
        ELSE IF nInt + nFr = 0 \/ p3 /= Len(s) + 1 THEN ValueError
        ELSE Float("finite", neg, nrm[1], nrm[2])

----------------------------------------------------------------------------
(* repr(float), as used by the f-string *)

RECURSIVE IntToStr(_)
IntToStr(n) ==
    IF n < 10 THEN <<DigitChars[n + 1]>>
    ELSE Append(IntToStr(n \div 10), DigitChars[(n % 10) + 1])

RECURSIVE Zeros(_)
Zeros(n) == IF n <= 0 THEN << >> ELSE <<"0">> \o Zeros(n - 1)

RECURSIVE StripZeros(_)
\* the significant digits: trailing zeros removed
StripZeros(d) ==
    IF Len(d) > 1 /\ d[Len(d)] = "0" THEN StripZeros(SubSeq(d, 1, Len(d) - 1)) ELSE d

\* float.__repr__: shortest digits, fixed notation when -4 < decpt <= 16
Repr(v) ==
    IF v.cls = "nan" THEN <<"n", "a", "n">>
    ELSE IF v.cls = "inf"
    THEN (IF v.neg THEN <<"-">> ELSE << >>) \o <<"i", "n", "f">>
    ELSE
      LET sign   == IF v.neg THEN <<"-">> ELSE << >>
          all    == IntToStr(v.num)
          digits == StripZeros(all)
          decpt  == Len(all) - v.scale
          nd     == Len(digits)
          e      == decpt - 1
          eAbs   == IF e < 0 THEN -e ELSE e
          eStr   == IF eAbs < 10 THEN <<"0">> \o IntToStr(eAbs) ELSE IntToStr(eAbs)
      IN  IF v.num = 0 THEN sign \o <<"0", ".", "0">>
          ELSE IF decpt > 16 \/ decpt <= -4
          THEN sign \o <<digits[1]>>
                    \o (IF nd > 1 THEN <<".">> \o SubSeq(digits, 2, nd) ELSE << >>)
                    \o <<"e", (IF e < 0 THEN "-" ELSE "+")>> \o eStr
          ELSE IF decpt <= 0
          THEN sign \o <<"0", ".">> \o Zeros(-decpt) \o digits
          ELSE IF nd <= decpt
          THEN sign \o digits \o Zeros(decpt - nd) \o <<".", "0">>
          ELSE sign \o SubSeq(digits, 1, decpt) \o <<".">> \o SubSeq(digits, decpt + 1, nd)

\* f"Current BTCUSDT {price}"
FormatLine(p) == PREFIX \o Repr(p)

----------------------------------------------------------------------------
(* The remote call client.get_symbol_ticker(symbol="BTCUSDT") *)

NoExc == ""

\* what the library raises: requests' ConnectionError and Timeout when the
\* endpoint cannot be reached, BinanceAPIException for an error reply of the
\* service (unknown symbol), BinanceRequestException for a body that is not JSON
RemoteErrors == {"ConnectionError", "Timeout", "BinanceAPIException", "BinanceRequestException"}

Raises(e) == [kind |-> "raise", exc |-> e, body |-> [symbol |-> SYMBOL]]

Json(d) == [kind |-> "json", exc |-> NoExc, body |-> d]

NoResponse == [kind |-> "none", exc |-> NoExc, body |-> [symbol |-> SYMBOL]]

\* the replies of the service over a set of price strings: the ticker object
\* with its price, or an object without the "price" key
Responses(prices) ==
    {Raises(e) : e \in RemoteErrors}
      \cup {Json([symbol |-> SYMBOL])}
      \cup {Json([symbol |-> SYMBOL, price |-> s]) : s \in prices}

AllResponses == Responses(PriceStrings)

SampleResponses == Responses(SamplePrices)

Unbound == [unbound |-> TRUE]

----------------------------------------------------------------------------
(* The program *)

Init ==
    /\ pc = "load"
    /\ isMain \in BOOLEAN
    /\ client = 0
    /\ constructed = 0
    /\ calls = 0
    /\ requests = << >>
    /\ response = NoResponse
    /\ btc_price = Unbound
    /\ ret = None
    /\ exc = NoExc
    /\ price = None
    /\ stdout = << >>
    /\ stderr = << >>
    /\ exitStatus = << >>
    /\ log = << >>

\* line 6: client = Client().  The constructor contacts the service and may raise.
LoadClient ==
    /\ pc = "load"
    /\ constructed' = constructed + 1
    /\ \/ /\ client' = constructed + 1
          /\ pc' = "guard"
          /\ exc' = exc
       \/ /\ \E e \in {"ConnectionError", "Timeout"} : exc' = e
          /\ client' = client
          /\ pc' = IF isMain THEN "unwind" ELSE "import_failed"
    /\ UNCHANGED <<isMain, calls, requests, response, btc_price, ret, price,
                   stdout, stderr, exitStatus, log>>

\* line 12: if __name__ == "__main__"
MainGuard ==
    /\ pc = "guard"
    /\ pc' = IF isMain THEN "main_call" ELSE "imported"
    /\ UNCHANGED <<isMain, client, constructed, calls, requests, response,
                   btc_price, ret, exc, price, stdout, stderr, exitStatus, log>>

\* entering get_btc_price (line 8): a fresh frame
Enter ==
    /\ calls' = calls + 1
    /\ response' = NoResponse
    /\ btc_price' = Unbound
    /\ ret' = None
    /\ exc' = NoExc
    /\ pc' = "request"

\* line 13, the call: price = get_btc_price()
MainCall ==
    /\ pc = "main_call"
    /\ Enter
    /\ UNCHANGED <<isMain, client, constructed, requests, price, stdout, stderr,
                   exitStatus, log>>

\* Request with a retry: a remote call that raises is issued a second time
RequestRetry(R) ==
    /\ pc = "request"
    /\ client /= 0
    /\ \E r1 \in R :
          LET one == Append(requests, [symbol |-> SYMBOL, call |-> calls, client |-> client])
          IN  IF r1.kind = "raise"
              THEN /\ requests' = Append(one, [symbol |-> SYMBOL, call |-> calls, client |-> client])
                   /\ \E r2 \in R :
                         /\ response' = r2
                         /\ exc' = r2.exc
                         /\ btc_price' = IF r2.kind = "raise" THEN btc_price ELSE r2.body
                         /\ pc' = IF r2.kind = "raise" THEN "unwind" ELSE "convert"
              ELSE /\ requests' = one
                   /\ response' = r1
                   /\ exc' = exc
                   /\ btc_price' = r1.body
                   /\ pc' = "convert"
    /\ UNCHANGED <<isMain, client, constructed, calls, ret, price, stdout, stderr,
                   exitStatus, log>>

\* Request with a fallback: a remote call that raises is answered by a price of "0"
RequestFallback(R) ==
    /\ pc = "request"
    /\ client /= 0
    /\ requests' = Append(requests, [symbol |-> SYMBOL, call |-> calls, client |-> client])
    /\ \E r \in R :
          /\ response' = r
          /\ exc' = exc
          /\ btc_price' = IF r.kind = "raise"
                          THEN [symbol |-> SYMBOL, price |-> <<"0">>]
                          ELSE r.body
          /\ pc' = "convert"
    /\ UNCHANGED <<isMain, client, constructed, calls, ret, price, stdout, stderr,
                   exitStatus, log>>

\* Request through a client built for the call: Client().get_symbol_ticker(...)
RequestNewClient(R) ==
    /\ pc = "request"
    /\ constructed' = constructed + 1
    /\ client' = constructed + 1
    /\ requests' = Append(requests, [symbol |-> SYMBOL, call |-> calls, client |-> constructed + 1])
    /\ \E r \in R :
          /\ response' = r
          /\ IF r.kind = "raise"
             THEN /\ exc' = r.exc
                  /\ btc_price' = btc_price
                  /\ pc' = "unwind"
             ELSE /\ exc' = exc
                  /\ btc_price' = r.body
                  /\ pc' = "convert"
    /\ UNCHANGED <<isMain, calls, ret, price, stdout, stderr, exitStatus, log>>

\* line 9: btc_price = client.get_symbol_ticker(symbol="BTCUSDT")
Request(R) ==
    /\ pc = "request"
    /\ client /= 0
    /\ requests' = Append(requests, [symbol |-> SYMBOL, call |-> calls, client |-> client])
    /\ \E r \in R :
          /\ response' = r
          /\ IF r.kind = "raise"
             THEN /\ exc' = r.exc
                  /\ btc_price' = btc_price
                  /\ pc' = "unwind"
             ELSE /\ exc' = exc
                  /\ btc_price' = r.body
                  /\ pc' = "convert"
    /\ UNCHANGED <<isMain, client, constructed, calls, ret, price, stdout, stderr,
                   exitStatus, log>>

\* Convert that takes a price of zero for "no quote"
ConvertZeroUnavailable ==
    /\ pc = "convert"
    /\ IF "price" \notin DOMAIN btc_price
       THEN /\ exc' = "KeyError"
            /\ ret' = ret
            /\ pc' = "unwind"
       ELSE LET v == ParseFloat(btc_price["price"])
            IN  IF v = ValueError
                THEN /\ exc' = "ValueError"
                     /\ ret' = ret
                     /\ pc' = "unwind"
                ELSE IF v.cls = "finite" /\ v.num = 0
                THEN /\ exc' = "QuoteUnavailable"
                     /\ ret' = ret
                     /\ pc' = "unwind"
                ELSE /\ exc' = exc
                     /\ ret' = v
                     /\ pc' = "return"
    /\ UNCHANGED <<isMain, client, constructed, calls, requests, response,
                   btc_price, price, stdout, stderr, exitStatus, log>>

\* Convert that keeps the first price it returned and returns it again
ConvertCached ==
    /\ pc = "convert"
    /\ IF \E i \in 1..Len(log) : log[i].exc = NoExc
       THEN /\ exc' = exc
            /\ ret' = log[CHOOSE i \in 1..Len(log) : log[i].exc = NoExc].ret
            /\ pc' = "return"
       ELSE IF "price" \notin DOMAIN btc_price
       THEN /\ exc' = "KeyError"
            /\ ret' = ret
            /\ pc' = "unwind"
       ELSE LET v == ParseFloat(btc_price["price"])
            IN  IF v = ValueError
                THEN /\ exc' = "ValueError"
                     /\ ret' = ret
                     /\ pc' = "unwind"
                ELSE /\ exc' = exc
                     /\ ret' = v
                     /\ pc' = "return"
    /\ UNCHANGED <<isMain, client, constructed, calls, requests, response,
                   btc_price, price, stdout, stderr, exitStatus, log>>

\* line 10: return float(btc_price["price"])
Convert ==
    /\ pc = "convert"
    /\ IF "price" \notin DOMAIN btc_price
       THEN /\ exc' = "KeyError"
            /\ ret' = ret
            /\ pc' = "unwind"
       ELSE LET v == ParseFloat(btc_price["price"])
            IN  IF v = ValueError
                THEN /\ exc' = "ValueError"
                     /\ ret' = ret
                     /\ pc' = "unwind"
                ELSE /\ exc' = exc
                     /\ ret' = v
                     /\ pc' = "return"
    /\ UNCHANGED <<isMain, client, constructed, calls, requests, response,
                   btc_price, price, stdout, stderr, exitStatus, log>>

\* line 13, the assignment: price = <the value returned>
MainAssign ==
    /\ pc = "return"
    /\ isMain
    /\ price' = ret
    /\ pc' = "print"
    /\ UNCHANGED <<isMain, client, constructed, calls, requests, response,
                   btc_price, ret, exc, stdout, stderr, exitStatus, log>>

\* PrintLine that prints the price string of the reply, not the float
PrintLineRaw ==
    /\ pc = "print"
    /\ stdout' = Append(stdout, PREFIX \o btc_price["price"])
    /\ pc' = "exit"
    /\ UNCHANGED <<isMain, client, constructed, calls, requests, response,
                   btc_price, ret, exc, price, stderr, exitStatus, log>>

\* line 14: print(f"Current BTCUSDT {price}")
PrintLine ==
    /\ pc = "print"
    /\ stdout' = Append(stdout, FormatLine(price))
    /\ pc' = "exit"
    /\ UNCHANGED <<isMain, client, constructed, calls, requests, response,
                   btc_price, ret, exc, price, stderr, exitStatus, log>>

\* the end of the script: the interpreter exits with status 0
Exit ==
    /\ pc = "exit"
    /\ exitStatus' = <<0>>
    /\ pc' = "done"
    /\ UNCHANGED <<isMain, client, constructed, calls, requests, response,
                   btc_price, ret, exc, price, stdout, stderr, log>>

\* the traceback the interpreter writes for an exception nothing catches
Traceback(e) == <<"Traceback (most recent call last):", e>>

\* an entry point that swallows the exception and prints a price of zero
UncaughtSwallowed ==
    /\ pc = "unwind"
    /\ isMain
    /\ stdout' = Append(stdout, FormatLine(Zero))
    /\ exitStatus' = <<0>>
    /\ pc' = "done"
    /\ UNCHANGED <<isMain, client, constructed, calls, requests, response,
                   btc_price, ret, exc, price, stderr, log>>

\* lines 12-14 have no try: an exception leaves the script, the interpreter
\* writes the traceback to standard error and exits with status 1
Uncaught ==
    /\ pc = "unwind"
    /\ isMain
    /\ stderr' = Append(stderr, Traceback(exc))
    /\ exitStatus' = <<1>>
    /\ pc' = "done"
    /\ UNCHANGED <<isMain, client, constructed, calls, requests, response,
                   btc_price, ret, exc, price, stdout, log>>

Next ==
    \/ LoadClient
    \/ MainGuard
    \/ MainCall
    \/ Request(AllResponses)
    \/ Convert
    \/ MainAssign
    \/ PrintLine
    \/ Exit
    \/ Uncaught

Spec == Init /\ [][Next]_vars

----------------------------------------------------------------------------
(* The module imported by a caller that calls get_btc_price repeatedly *)

InitLib == Init /\ ~isMain

\* the importing caller calls get_btc_price()
ImporterCall ==
    /\ pc = "imported"
    /\ calls < MaxCalls
    /\ Enter
    /\ UNCHANGED <<isMain, client, constructed, requests, price, stdout, stderr,
                   exitStatus, log>>

\* the call ends, by a return or by an exception, and the caller has its outcome
ImporterResume ==
    /\ pc \in {"return", "unwind"}
    /\ ~isMain
    /\ log' = Append(log, [response |-> response, ret |-> ret, exc |-> exc])
    /\ pc' = "imported"
    /\ UNCHANGED <<isMain, client, constructed, calls, requests, response,
                   btc_price, ret, exc, price, stdout, stderr, exitStatus>>

NextLib ==
    \/ LoadClient
    \/ MainGuard
    \/ ImporterCall
    \/ Request(SampleResponses)
    \/ Convert
    \/ ImporterResume

SpecLib == InitLib /\ [][NextLib]_vars

----------------------------------------------------------------------------
(* Vocabulary of the properties *)

\* the current call has got past the remote call and the conversion
FetchOver == calls > 0 /\ pc \notin {"request", "convert"}

HasPrice(r) == r.kind = "json" /\ "price" \in DOMAIN r.body

Unsigned(s) == IF s /= << >> /\ s[1] \in {"-", "+"} THEN Tail(s) ELSE s

\* a decimal numeral: an optional sign, digits, at most one point, no blanks
IsNumeral(s) ==
    LET u == Unsigned(s)
    IN  /\ \A i \in 1..Len(u) : IsDigit(u[i]) \/ u[i] = "."
        /\ Cardinality({i \in 1..Len(u) : u[i] = "."}) <= 1
        /\ \E i \in 1..Len(u) : IsDigit(u[i])

RECURSIVE Pow10(_)
Pow10(n) == IF n = 0 THEN 1 ELSE 10 * Pow10(n - 1)

RECURSIVE PlaceSum(_, _)
\* the number the digit string d denotes, by place value, over its last k places
PlaceSum(d, k) ==
    IF k = 0 THEN 0
    ELSE DigitVal(d[Len(d) - k + 1]) * Pow10(k - 1) + PlaceSum(d, k - 1)

\* v is the number the numeral s denotes
Denotes(s, v) ==
    LET u      == Unsigned(s)
        digs   == SelectSeq(u, IsDigit)
        dotAt  == {i \in 1..Len(u) : u[i] = "."}
        places == IF dotAt = {} THEN 0 ELSE Len(u) - (CHOOSE i \in dotAt : TRUE)
    IN  /\ v.cls = "finite"
        /\ v.neg = (s[1] = "-")
        /\ v.num * Pow10(places) = PlaceSum(digs, Len(digs)) * Pow10(v.scale)

NonNegativeFinite(v) == v.cls = "finite" /\ (~v.neg \/ v.num = 0)

----------------------------------------------------------------------------
(* Properties of the script run as the entry point (Spec) *)

\* C1: in a run in which the fetch fails (the remote call raises, the reply
\* lacks the price, or the price does not convert), nothing is ever written
\* to standard output; the exception leaves the script, and the run ends
\* with a non-zero exit status and an error message naming the exception on
\* standard error.
C1_FailedFetchExitsNonZero ==
    (isMain /\ calls > 0 /\ exc /= NoExc) =>
        /\ stdout = << >>
        /\ \/ pc = "unwind" /\ exitStatus = << >> /\ ENABLED Uncaught
           \/ /\ pc = "done"
              /\ Len(exitStatus) = 1 /\ exitStatus[1] /= 0
              /\ Len(stderr) = 1 /\ stderr[1][2] = exc

C1_Witness ==
    /\ pc = "done" /\ isMain /\ calls = 1
    /\ response = Raises("Timeout")
    /\ exitStatus = <<1>> /\ stderr /= << >> /\ stdout = << >>

\* C2: a line is written only after the one call of the fetcher has
\* returned; a run whose fetch succeeds ends with exactly one call, one
\* request for BTCUSDT, exit status 0 and exactly one line on standard
\* output, "Current BTCUSDT " followed by the returned value as repr prints
\* it; the symbol printed is the symbol requested.  For the price string
\* "65432.10" the line is "Current BTCUSDT 65432.1".
C2_OneCallThenOneLine ==
    /\ \A i \in 1..Len(requests) : requests[i].symbol = SYMBOL
    /\ stdout /= << >> =>
          /\ isMain /\ calls = 1 /\ exc = NoExc /\ pc \in {"exit", "done"}
          /\ ret /= None /\ price = ret
          /\ stdout = <<PREFIX \o Repr(ret)>>
          /\ SubSeq(stdout[1], 9, 15) = requests[1].symbol
    /\ (pc = "done" /\ exc = NoExc) =>
          /\ calls = 1 /\ Len(requests) = 1
          /\ Len(stdout) = 1 /\ exitStatus = <<0>> /\ stderr = << >>
    /\ (pc = "done" /\ HasPrice(response)
           /\ response.body.price = <<"6", "5", "4", "3", "2", ".", "1", "0">>) =>
          stdout = << <<"C", "u", "r", "r", "e", "n", "t", " ",
                       "B", "T", "C", "U", "S", "D", "T", " ",
                       "6", "5", "4", "3", "2", ".", "1">> >>

C2_Witness ==
    /\ pc = "done" /\ exitStatus = <<0>> /\ calls = 1
    /\ stdout = << <<"C", "u", "r", "r", "e", "n", "t", " ",
                    "B", "T", "C", "U", "S", "D", "T", " ",
                    "6", "5", "4", "3", "2", ".", "1">> >>

\* C4: whenever the fetcher returns a value, the value is a non-negative
\* finite number.
C4_ReturnsNonNegativeFinite ==
    (FetchOver /\ exc = NoExc) => NonNegativeFinite(ret)

\* C5: for a reply without the price field, the fetcher fails with the error
\* kind MalformedResponse and returns no value.
C5_MissingPriceIsMalformedResponse ==
    (FetchOver /\ response.kind = "json" /\ ~HasPrice(response)) =>
        exc = "MalformedResponse" /\ ret = None

\* C6: for a reply whose price is a string that does not convert to a number,
\* the fetcher fails with the error kind MalformedResponse and returns no
\* value.
C6_NonNumericPriceIsMalformedResponse ==
    (FetchOver /\ HasPrice(response) /\ ParseFloat(response.body.price) = ValueError) =>
        exc = "MalformedResponse" /\ ret = None

\* C7: for a reply whose price is a decimal numeral, the fetcher returns,
\* without failing, the number the numeral denotes; "0" gives 0.0 and
\* "42000.50" gives 42000.5.
C7_ReturnsNumericValue ==
    (FetchOver /\ HasPrice(response) /\ IsNumeral(response.body.price)) =>
        /\ exc = NoExc
        /\ ret /= None
        /\ Denotes(response.body.price, ret)
        /\ response.body.price = <<"0">> => ret = Zero
        /\ response.body.price = <<"4", "2", "0", "0", "0", ".", "5", "0">> =>
              ret = Float("finite", FALSE, 420005, 1)

C7_Witness ==
    /\ pc = "done" /\ HasPrice(response) /\ response.body.price = <<"0">>
    /\ ret = Zero /\ exc = NoExc
    /\ stdout = <<PREFIX \o <<"0", ".", "0">> >>

\* C8: a failure of the fetch reaches the caller as that failure: once the
\* remote call has raised, the exception in flight is the one it raised, and
\* after any failure no value is returned, none is bound to `price`, and
\* nothing is printed.
C8_FailureIsSurfaced ==
    /\ response.kind = "raise" => FetchOver /\ exc = response.exc
    /\ (calls > 0 /\ exc /= NoExc) =>
          /\ ret = None /\ price = None /\ stdout = << >>
          /\ pc \in {"unwind", "done"}
          /\ pc = "done" => stderr = <<Traceback(exc)>>

C8_Witness ==
    /\ pc = "done" /\ response = Raises("ConnectionError")
    /\ stderr = <<Traceback("ConnectionError")>> /\ ret = None

----------------------------------------------------------------------------
(* Properties of the fetcher called repeatedly (SpecLib) *)

\* C3: every call of the fetcher issues exactly one request, whether it
\* succeeds or fails: the i-th request is the request of the i-th call, and
\* once a call is past the remote call there are as many requests as calls.
C3_OneRequestPerCall ==
    /\ Len(requests) = IF pc = "request" THEN calls - 1 ELSE calls
    /\ \A i \in 1..Len(requests) : requests[i].call = i

C3_Witness ==
    /\ Len(log) = 2 /\ Len(requests) = 2 /\ calls = 2
    /\ log[1].exc = "Timeout" /\ log[2].exc = NoExc

\* C9: the outcome of a call depends on the reply to its own request only:
\* two calls that got the same reply have the same outcome, whatever came
\* between them; and every request went through the one client object the
\* module-level name is still bound to.
C9_NoStateBetweenCalls ==
    /\ \A i, j \in 1..Len(log) :
          log[i].response = log[j].response =>
              log[i].ret = log[j].ret /\ log[i].exc = log[j].exc
    /\ \A i \in 1..Len(requests) : requests[i].client = client

C9_Witness ==
    /\ Len(log) = 3
    /\ log[1].response = log[3].response /\ log[1].exc = "ValueError"
    /\ log[2].ret = Zero

\* C10: the client is constructed once, at module load, before any call, and
\* never again; a load that is not a run as the entry point ends with the
\* client constructed, no call of the fetcher and nothing on standard output.
C10_ClientConstructedOnce ==
    /\ [](/\ constructed <= 1
          /\ pc = "load" => constructed = 0 /\ calls = 0
          /\ calls > 0 => constructed = 1 /\ client = 1
          /\ stdout = << >>)
    /\ [][pc = "guard" =>
            /\ pc' = "imported" /\ constructed' = 1 /\ client' = 1
            /\ calls' = 0 /\ requests' = << >> /\ stdout' = << >>]_vars

C10_Witness ==
    /\ pc = "imported" /\ calls = 3 /\ Len(log) = 3 /\ constructed = 1

====
